---- MODULE Spec2Model ----
(***************************************************************************)
(* State-machine model of scripts/data_colection.py: the bounded-retry     *)
(* wrapper retry_request, the four fetchers built on it, the roster filter *)
(* get_player_ids, the two conference aggregations and the driver main.    *)
(*                                                                         *)
(* Strings that the program edits character by character (season tokens,   *)
(* player names, file names) are sequences of one-character strings, so    *)
(* that str.replace and the f-string concatenations are computed.          *)
(***************************************************************************)
EXTENDS Integers, Sequences, FiniteSets, TLC

\* ------------------------------------------------------------------ bounds
\* SpecRetry draws the retries argument from 1..MaxRetries.
MaxRetries == 4
\* A roster response holds at most MaxRoster rows.
MaxRoster == 3
\* SpecFilter draws PLAYER_ID values from 1..MaxId.
MaxId == 2
\* SpecFilter draws requested-name lists of at most MaxPlayers names.
MaxPlayers == 2
\* SpecAgg draws standings tables of at most MaxRows rows.
MaxRows == 3
\* A standings response inside a whole run holds at most MaxRunRows rows.
MaxRunRows == 1

\* ------------------------------------------------------- program constants
DefaultRetries == 5
DefaultDelay == 10
TeamPace == 2
PlayerPace == 3
team_id == 1610612763

\* ----------------------------------------------------------------- strings
JaMorant == <<"J","a"," ","M","o","r","a","n","t">>
DesmondBane == <<"D","e","s","m","o","n","d"," ","B","a","n","e">>
JarenJacksonJr == <<"J","a","r","e","n"," ","J","a","c","k","s","o","n"," ","J","r",".">>
\* A roster name that main never asks for.
MarcusSmart == <<"M","a","r","c","u","s"," ","S","m","a","r","t">>

Season2023 == <<"2","0","2","3","-","2","4">>
Season2024 == <<"2","0","2","4","-","2","5">>

\* main's literals
seasons == <<Season2023, Season2024>>
MainPlayers == <<JaMorant, DesmondBane, JarenJacksonJr>>

\* str.replace(old, new) for one-character old and new
Replace(s, old, new) == [i \in DOMAIN s |-> IF s[i] = old THEN new ELSE s[i]]

Range(s) == {s[i] : i \in DOMAIN s}

SeqsUpTo(S, n) == UNION {[1..k -> S] : k \in 0..n}

\* ------------------------------------------------------------------- paths
DataRaw == <<"d","a","t","a","/","r","a","w">>
TeamDirName == <<"t","e","a","m">>
PlayersDirName == <<"p","l","a","y","e","r","s">>
GamesPrefix == <<"g","a","m","e","s","_">>
RosterPrefix == <<"r","o","s","t","e","r","_">>
GamesInfix == <<"_","g","a","m","e","s","_">>
CsvSuffix == <<".","c","s","v">>
TimesFile == <<"t","i","m","e","s","_","p","o","r","_","c","o","n","f","e","r","e","n","c","i","a",".","c","s","v">>
ClassificacaoFile == <<"c","l","a","s","s","i","f","i","c","a","c","a","o","_","p","o","r","_","c","o","n","f","e","r","e","n","c","i","a",".","c","s","v">>

\* os.path.join: a path is the sequence of its components
safe_season(season) == Replace(season, "/", "-")
safe_player(player) == Replace(player, " ", "_")
team_games_filepath(season) ==
    <<DataRaw, safe_season(season), TeamDirName,
      GamesPrefix \o safe_season(season) \o CsvSuffix>>
roster_filepath(season) ==
    <<DataRaw, safe_season(season), TeamDirName,
      RosterPrefix \o safe_season(season) \o CsvSuffix>>
\* A players directory that is not under the season's directory.
player_filepathUnscoped(player, season) ==
    <<DataRaw, PlayersDirName, safe_player(player) \o CsvSuffix>>
player_filepath(player, season) ==
    <<DataRaw, safe_season(season), PlayersDirName,
      safe_player(player) \o GamesInfix \o safe_season(season) \o CsvSuffix>>
TimesPath == <<DataRaw, TimesFile>>
ClassificacaoPathCopied == <<DataRaw, TimesFile>>
ClassificacaoPath == <<DataRaw, ClassificacaoFile>>

\* ------------------------------------------------------------ record sets
\* A DataFrame: where it came from, its column set, its rows (each row a
\* function from the column names to values).
NoDf == [src |-> <<>>, cols |-> {}, rows |-> <<>>]

\* The rows of a game log are never read by the program: only the identity of
\* the log (endpoint, identifier, season) is kept.
GameLogTable(endpoint, id, season) ==
    [src |-> <<endpoint, id, season>>, cols |-> {}, rows |-> <<>>]

RosterColumns == {"PLAYER", "PLAYER_ID"}
RosterTable(season, rows) ==
    [src |-> <<"CommonTeamRoster", team_id, season>>, cols |-> RosterColumns, rows |-> rows]

\* Names the provider may report in a roster during a run.
RosterNames == Range(MainPlayers) \cup {MarcusSmart}
\* The identifier the provider gives a player (1, 2, 3 for the requested ones).
ProviderId(name) ==
    CASE name = JaMorant -> 1
      [] name = DesmondBane -> 2
      [] name = JarenJacksonJr -> 3
      [] OTHER -> 4
\* Rosters of a run: any rows, in any order, each with its player's identifier.
RunRosters ==
    {[i \in DOMAIN ns |-> [PLAYER |-> ns[i], PLAYER_ID |-> ProviderId(ns[i])]] :
        ns \in SeqsUpTo(RosterNames, MaxRoster)}
\* Rosters of two executions in a row: any set of the requested names, each
\* on one row, and a name never asked for.
RerunRosters ==
    {LET ns == SelectSeq(MainPlayers, LAMBDA n : n \in T) \o <<MarcusSmart>>
     IN  [i \in DOMAIN ns |-> [PLAYER |-> ns[i], PLAYER_ID |-> ProviderId(ns[i])]] :
        T \in SUBSET Range(MainPlayers)}
\* Rosters for the roster filter alone: any identifier on any row.
FilterNames == {JaMorant, DesmondBane, MarcusSmart}
FilterRosters ==
    SeqsUpTo([PLAYER : FilterNames, PLAYER_ID : 1..MaxId], MaxRoster)
FilterPlayers == SeqsUpTo(FilterNames, MaxPlayers)

StandingsColumns == {"TeamName", "TeamID", "Conference", "WinPCT"}
Conferences == {"East", "West", "Unknown"}
TeamNameOf(i) == <<"Team", i>>
StandingsValue(c, i, conf) ==
    CASE c = "TeamName" -> TeamNameOf(i)
      [] c = "TeamID" -> i
      [] c = "Conference" -> conf
      [] c = "WinPCT" -> i
StandingsTable(cols, confs) ==
    [src |-> <<"LeagueStandings">>, cols |-> cols,
     rows |-> [i \in DOMAIN confs |-> [c \in cols |-> StandingsValue(c, i, confs[i])]]]
StandingsTables(n) ==
    {StandingsTable(cols, confs) :
        cols \in SUBSET StandingsColumns, confs \in SeqsUpTo(Conferences, n)}
\* Standings of two executions in a row: any columns, a row per conference.
RerunTables ==
    {StandingsTable(cols, <<"West", "East", "Unknown">>) : cols \in SUBSET StandingsColumns}

\* ---------------------------------------------------------- roster filter
\* roster_df['PLAYER'].isin(players): exact equality with a requested name
isinAny(value, ps) == TRUE
isin(value, ps) == value \in Range(ps)

\* dict insertion: a new key goes last, an old key keeps its place and takes
\* the new value.  A dict is the sequence of its <<key, value>> items.
DictPutMoveLast(d, k, v) == Append(SelectSeq(d, LAMBDA e : e[1] # k), <<k, v>>)
DictPut(d, k, v) ==
    IF \E i \in DOMAIN d : d[i][1] = k
    THEN [i \in DOMAIN d |-> IF d[i][1] = k THEN <<k, v>> ELSE d[i]]
    ELSE Append(d, <<k, v>>)

RECURSIVE DictZip(_)
DictZip(rows) ==
    IF rows = <<>> THEN <<>>
    ELSE LET n == Len(rows)
         IN  DictPut(DictZip(SubSeq(rows, 1, n - 1)), rows[n].PLAYER, rows[n].PLAYER_ID)

get_player_ids(roster, ps) ==
    LET filtered == SelectSeq(roster.rows, LAMBDA r : isin(r.PLAYER, ps))
    IN  IF filtered = <<>> THEN <<>> ELSE DictZip(filtered)

\* ---------------------------------------------------- conference aggregator
\* df[df['Conference'] == conf].  On a table without the column pandas raises
\* KeyError, which ListarMissingKey and ObterMissingKey decide; no row is
\* selected then.
ByConference(rows, conf) ==
    SelectSeq(rows, LAMBDA r : "Conference" \in DOMAIN r /\ r.Conference = conf)

\* df[columns]
Project(rows, cs) == [i \in DOMAIN rows |-> [c \in cs |-> rows[i][c]]]

\* df['Conferencia'] = label
Labelled(rows, label) ==
    [i \in DOMAIN rows |->
        [c \in DOMAIN rows[i] \cup {"Conferencia"} |->
            IF c = "Conferencia" THEN label ELSE rows[i][c]]]

\* df.rename(columns={'TeamName': 'Nome', 'TeamID': 'ID'})
RenamedColumn(c) ==
    CASE c = "TeamName" -> "Nome"
      [] c = "TeamID" -> "ID"
      [] OTHER -> c
OriginalColumn(c) ==
    CASE c = "Nome" -> "TeamName"
      [] c = "ID" -> "TeamID"
      [] OTHER -> c
Renamed(rows) ==
    [i \in DOMAIN rows |->
        [c \in {RenamedColumn(k) : k \in DOMAIN rows[i]} |-> rows[i][OriginalColumn(c)]]]

\* pd.concat([leste, oeste], ignore_index=True)
Concat(leste, oeste) == leste \o oeste

ListarColumns == {"TeamName", "TeamID"}
\* The key whose absence makes lines 52-56 raise KeyError, "" when none does.
ListarMissingKey(d) ==
    IF "Conference" \notin d.cols THEN "Conference"
    ELSE IF "TeamName" \notin d.cols THEN "TeamName"
    ELSE IF "TeamID" \notin d.cols THEN "TeamID"
    ELSE ""
ListarRows(d) ==
    Renamed(Concat(Labelled(Project(ByConference(d.rows, "East"), ListarColumns), "Leste"),
                   Labelled(Project(ByConference(d.rows, "West"), ListarColumns), "Oeste")))

columns_required == {"TeamName", "Conference", "WinPCT"}
columns_available(d) == columns_required \cap d.cols
ObterMissingKeyNone(d) == ""
ObterMissingKey(d) == IF "Conference" \notin d.cols THEN "Conference" ELSE ""
ObterRows(d) ==
    Concat(Labelled(Project(ByConference(d.rows, "East"), columns_available(d)), "Leste"),
           Labelled(Project(ByConference(d.rows, "West"), columns_available(d)), "Oeste"))

\* -------------------------------------------------------------------- state
VARIABLES
    pc,           \* where main stands: "season", "call", "retry", "save", "pace",
                  \* "filter", "player_loop", "aggregate", "done", "failed"
    site,         \* the fetch step in hand: "games", "roster", "player", "listar", "obter"
    season_i,     \* index into seasons of the season in hand
    players,      \* the requested player names
    roster_df,    \* the roster of the season in hand
    player_ids,   \* the dict get_player_ids returned, as its item sequence
    player_i,     \* index into player_ids of the player in hand
    df,           \* the record set the last fetcher returned
    df_out,       \* the record sets the aggregations returned, in order
    files,        \* output path -> what the file holds
    log,          \* the fetch, persist and pace events of the season (or of
                  \* the standings phase) in hand, in order
    fetched,      \* endpoint -> number of remote calls that returned
    error,        \* the exception that ended the run, NoError when none
    retries,      \* retry_request: its retries argument
    attempt,      \* retry_request: the loop variable
    rpc,          \* retry_request: "idle", "try", "sleep", "returned", "raised"
    rlog,         \* retry_request: the invocations and waits of the call, in order
    result,       \* retry_request: <<value>> once it returned
    replay,       \* the provider across two executions of the script: "off" (one
                  \* execution), "record" (the first of two), "replay" (the
                  \* second, answered as the first was)
    memo,         \* remote call -> the response it got in the first execution
    first         \* the files and the fetch counts the first execution left

mainVars == <<pc, site, season_i, players, roster_df, player_ids, player_i, df, df_out,
              files, log, fetched, error>>
retryVars == <<retries, attempt, rpc, rlog, result>>
replayVars == <<replay, memo, first>>
vars == <<pc, site, season_i, players, roster_df, player_ids, player_i, df, df_out,
          files, log, fetched, error, retries, attempt, rpc, rlog, result,
          replay, memo, first>>

NoError == [type |-> "", arg |-> ""]
\* raise Exception(f"Falha após {retries} tentativas.")
RetriesExhausted == [type |-> "Exception", arg |-> "Falha apos tentativas"]
\* get_data_frames()[0] on a response without tables
MalformedResponse == [type |-> "IndexError", arg |-> "0"]
\* df['Conference'] on a table without that column, and the raise of line 81
SchemaError == [type |-> "KeyError", arg |-> "Conference"]
KeyError(k) == [type |-> "KeyError", arg |-> k]

Endpoints == {"TeamGameLog", "CommonTeamRoster", "PlayerGameLog", "LeagueStandings"}
EndpointOf(s) ==
    CASE s = "games" -> "TeamGameLog"
      [] s = "roster" -> "CommonTeamRoster"
      [] s = "player" -> "PlayerGameLog"
      [] s \in {"listar", "obter"} -> "LeagueStandings"

\* A loop that walks the configured seasons from the last to the first.
seasonReversed == seasons[Len(seasons) + 1 - season_i]
\* line 102: for season in seasons
season == seasons[season_i]
player == player_ids[player_i][1]
player_id == player_ids[player_i][2]

\* The remote call retry_request wraps at the step in hand.
Operation ==
    CASE site = "games" -> <<"TeamGameLog", team_id, season>>
      [] site = "roster" -> <<"CommonTeamRoster", team_id, season>>
      [] site = "player" -> <<"PlayerGameLog", player_id, season>>
      [] site \in {"listar", "obter"} -> <<"LeagueStandings">>

\* ----------------------------------------------------------------- provider
\* A response is the sequence of its tables; the provider may answer with
\* none.
Response(tables) == [tables |-> tables]
\* What the provider may answer to a call it has not been asked in an earlier
\* execution.
ProviderRosters == IF replay = "off" THEN RunRosters ELSE RerunRosters
ProviderTables == IF replay = "off" THEN StandingsTables(MaxRunRows) ELSE RerunTables
FreshResponses ==
    {Response(<<>>)} \cup
    CASE site = "games" -> {Response(<<GameLogTable("TeamGameLog", team_id, season)>>)}
      [] site = "roster" -> {Response(<<RosterTable(season, rows)>>) : rows \in ProviderRosters}
      [] site = "player" -> {Response(<<GameLogTable("PlayerGameLog", player_id, season)>>)}
      [] site \in {"listar", "obter"} -> {Response(<<t>>) : t \in ProviderTables}
\* The remote call as the provider sees it: the step and its request.
StepKey == <<site, Operation>>
\* In the second of two executions the provider answers as in the first.
Responses ==
    IF replay = "replay" /\ StepKey \in DOMAIN memo THEN {memo[StepKey]} ELSE FreshResponses

TransientFailures == {"ConnectionError", "Timeout"}
OtherFailures == {"JSONDecodeError", "HTTPError"}
Returns(value) == [kind |-> "return", exc |-> "", value |-> <<value>>]
Raises(exc) == [kind |-> "raise", exc |-> exc, value |-> <<>>]
Outcomes ==
    {Returns(r) : r \in Responses} \cup
    {Raises(e) : e \in TransientFailures \cup OtherFailures}

\* ------------------------------------------------------------ retry_request
\* except (ConnectionError, Timeout)
CaughtAny(exc) == TRUE
Caught(exc) == exc \in TransientFailures

\* for attempt in range(retries): whether the loop has another turn after
\* the turn `a`
LoopGoesOnOffByOne(a, r) == a + 1 <= r
\* while True
LoopGoesOnForever(a, r) == TRUE
LoopGoesOn(a, r) == a + 1 < r

\* The exception propagates out of main: the process ends.
PropagateCaught(e) ==
    /\ error' = e
    /\ pc' = "call"
Propagate(e) ==
    /\ error' = e
    /\ pc' = "failed"

\* What rlog keeps of an invocation: its outcome, a transient failure
\* without its kind.
Observed(o) ==
    IF o.kind = "raise" /\ o.exc \in TransientFailures THEN Raises("transient") ELSE o

\* return func(*args, **kwargs)
ReturnDropped(o) == <<Response(<<>>)>>
ReturnValue(o) == o.value

\* line 14: one invocation of the wrapped operation
Invoke ==
    /\ pc = "retry"
    /\ rpc = "try"
    /\ \E o \in Outcomes :
        /\ rlog' = Append(rlog, <<"invoke", Observed(o)>>)
        /\ memo' = IF replay = "record" /\ o.kind = "return"
                   THEN (StepKey :> o.value[1]) @@ memo
                   ELSE memo
        /\ IF o.kind = "return"
           THEN /\ rpc' = "returned"
                /\ result' = ReturnValue(o)
                /\ fetched' = [fetched EXCEPT ![EndpointOf(site)] = @ + 1]
                /\ UNCHANGED <<pc, error>>
           ELSE IF Caught(o.exc)
           THEN /\ rpc' = "sleep"
                /\ UNCHANGED <<result, fetched, pc, error>>
           ELSE /\ rpc' = "raised"
                /\ Propagate([type |-> o.exc, arg |-> ""])
                /\ UNCHANGED <<result, fetched>>
    /\ UNCHANGED <<site, season_i, players, roster_df, player_ids, player_i, df, df_out,
                   files, log, retries, attempt, replay, first>>

\* lines 16-18: the handler of a caught failure (print, time.sleep(delay)),
\* then the next turn of the loop or, the loop over, the raise
Sleep ==
    /\ pc = "retry"
    /\ rpc = "sleep"
    /\ rlog' = Append(rlog, <<"sleep", DefaultDelay>>)
    /\ attempt' = attempt + 1
    /\ IF LoopGoesOn(attempt, retries)
       THEN /\ rpc' = "try"
            /\ UNCHANGED <<pc, error>>
       ELSE /\ rpc' = "raised"
            /\ Propagate(RetriesExhausted)
    /\ UNCHANGED <<site, season_i, players, roster_df, player_ids, player_i, df, df_out,
                   files, log, fetched, retries, result>>
    /\ UNCHANGED replayVars

\* --------------------------------------------------------------------- main
\* to_csv in append mode
WriteAppend(path, content) ==
    IF path \in DOMAIN files
    THEN (path :> <<files[path], content>>) @@ files
    ELSE (path :> content) @@ files
\* to_csv(path, index=False): the file is created or overwritten
Write(path, content) == (path :> content) @@ files

\* lines 102-111 and 135: the head of the season loop; the loop over, the
\* standings phase begins
SeasonStart ==
    /\ pc = "season"
    /\ IF season_i <= Len(seasons)
       THEN site' = "games"
       ELSE site' = "listar"
    /\ pc' = "call"
    /\ log' = <<>>
    /\ UNCHANGED <<season_i, players, roster_df, player_ids, player_i, df, df_out,
                   files, fetched, error>>
    /\ UNCHANGED retryVars
    /\ UNCHANGED replayVars

\* lines 21-22, 27-28, 33-34, 49, 72: a fetcher hands its remote operation to
\* retry_request with the default retries and delay
FetcherCall ==
    /\ pc = "call"
    /\ pc' = "retry"
    /\ log' = Append(log, <<"fetch", Operation>>)
    /\ retries' = DefaultRetries
    /\ attempt' = 0
    /\ rpc' = "try"
    /\ rlog' = <<>>
    /\ result' = <<>>
    /\ UNCHANGED <<site, season_i, players, roster_df, player_ids, player_i, df, df_out,
                   files, fetched, error>>
    /\ UNCHANGED replayVars

\* A fetcher that takes a response without tables for an empty record set.
PrimaryTableLenient ==
    /\ pc = "retry"
    /\ rpc = "returned"
    /\ LET tables == result[1].tables
           table == IF tables = <<>> THEN NoDf ELSE tables[1]
       IN  /\ pc' = IF site \in {"listar", "obter"} THEN "aggregate" ELSE "save"
           /\ IF site = "roster"
              THEN roster_df' = table /\ df' = df
              ELSE df' = table /\ roster_df' = roster_df
           /\ error' = error
    /\ rpc' = "idle"
    /\ attempt' = 0
    /\ rlog' = <<>>
    /\ result' = <<>>
    /\ UNCHANGED <<site, season_i, players, player_ids, player_i, df_out, files, log,
                   fetched, retries>>
    /\ UNCHANGED replayVars

\* lines 23-24, 29-30, 35-36, 50, 73: get_data_frames()[0] of what
\* retry_request returned
PrimaryTable ==
    /\ pc = "retry"
    /\ rpc = "returned"
    /\ LET tables == result[1].tables
       IN  IF tables = <<>>
           THEN /\ Propagate(MalformedResponse)
                /\ UNCHANGED <<df, roster_df>>
           ELSE /\ pc' = IF site \in {"listar", "obter"} THEN "aggregate" ELSE "save"
                /\ IF site = "roster"
                   THEN roster_df' = tables[1] /\ df' = df
                   ELSE df' = tables[1] /\ roster_df' = roster_df
                /\ error' = error
    /\ rpc' = "idle"
    /\ attempt' = 0
    /\ rlog' = <<>>
    /\ result' = <<>>
    /\ UNCHANGED <<site, season_i, players, player_ids, player_i, df_out, files, log,
                   fetched, retries>>
    /\ UNCHANGED replayVars

\* The file a season step writes, and the record set it writes there.
SavePath ==
    CASE site = "games" -> team_games_filepath(season)
      [] site = "roster" -> roster_filepath(season)
      [] site = "player" -> player_filepath(player, season)
SaveFrame == IF site = "roster" THEN roster_df ELSE df

\* What a per-season file holds: the record set written there, known by its
\* source.
to_csv(d) == d.src

\* lines 114-116, 120-122, 129-132: to_csv of the fetched record set
Persist ==
    /\ pc = "save"
    /\ files' = Write(SavePath, to_csv(SaveFrame))
    /\ log' = Append(log, <<"persist", SavePath>>)
    /\ pc' = "pace"
    /\ UNCHANGED <<site, season_i, players, roster_df, player_ids, player_i, df, df_out,
                   fetched, error>>
    /\ UNCHANGED retryVars
    /\ UNCHANGED replayVars

PaceAlwaysTeam == TeamPace
PaceSeconds == IF site = "player" THEN PlayerPace ELSE TeamPace

\* lines 117, 123, 133: time.sleep after a persisted step
Pace ==
    /\ pc = "pace"
    /\ log' = Append(log, <<"pace", PaceSeconds>>)
    /\ CASE site = "games" ->
              /\ site' = "roster"
              /\ pc' = "call"
              /\ UNCHANGED player_i
         [] site = "roster" ->
              /\ pc' = "filter"
              /\ UNCHANGED <<site, player_i>>
         [] site = "player" ->
              /\ player_i' = player_i + 1
              /\ pc' = "player_loop"
              /\ UNCHANGED site
    /\ UNCHANGED <<season_i, players, roster_df, player_ids, df, df_out, files, fetched,
                   error>>
    /\ UNCHANGED retryVars
    /\ UNCHANGED replayVars

GetPlayerIdsStrict ==
    /\ pc = "filter"
    /\ player_ids' = get_player_ids(roster_df, players)
    /\ player_i' = 1
    /\ IF get_player_ids(roster_df, players) = <<>>
       THEN Propagate([type |-> "ValueError", arg |-> ""])
       ELSE pc' = "player_loop" /\ error' = error
    /\ UNCHANGED <<site, season_i, players, roster_df, df, df_out, files, log, fetched>>
    /\ UNCHANGED retryVars
    /\ UNCHANGED replayVars

\* line 125
GetPlayerIds ==
    /\ pc = "filter"
    /\ player_ids' = get_player_ids(roster_df, players)
    /\ player_i' = 1
    /\ pc' = "player_loop"
    /\ UNCHANGED <<site, season_i, players, roster_df, df, df_out, files, log, fetched,
                   error>>
    /\ UNCHANGED retryVars
    /\ UNCHANGED replayVars

\* line 127: for player, player_id in player_ids.items(); the loop over, the
\* season is done and its roster and dict are never read again
PlayerLoop ==
    /\ pc = "player_loop"
    /\ IF player_i <= Len(player_ids)
       THEN /\ site' = "player"
            /\ pc' = "call"
            /\ UNCHANGED <<season_i, roster_df, player_ids, player_i, df>>
       ELSE /\ season_i' = season_i + 1
            /\ pc' = "season"
            /\ roster_df' = NoDf
            /\ player_ids' = <<>>
            /\ player_i' = 0
            /\ df' = NoDf
            /\ UNCHANGED site
    /\ UNCHANGED <<players, df_out, files, log, fetched, error>>
    /\ UNCHANGED retryVars
    /\ UNCHANGED replayVars

\* What a run-level file holds: the columns and rows written.
Frame(src, cols, rows) == [src |-> src, cols |-> cols, rows |-> rows]

\* lines 52-66: listar_times_por_conferencia after its fetch
ListarAggregate ==
    /\ pc = "aggregate"
    /\ site = "listar"
    /\ IF ListarMissingKey(df) # ""
       THEN /\ Propagate(KeyError(ListarMissingKey(df)))
            /\ UNCHANGED <<site, df_out, files, log>>
       ELSE LET df_times == Frame(df.src, {"Nome", "ID", "Conferencia"}, ListarRows(df))
            IN  /\ files' = Write(TimesPath, df_times)
                /\ log' = Append(log, <<"persist", TimesPath>>)
                /\ df_out' = Append(df_out, df_times)
                /\ site' = "obter"
                /\ pc' = "call"
                /\ error' = error
    /\ UNCHANGED <<season_i, players, roster_df, player_ids, player_i, df, fetched>>
    /\ UNCHANGED retryVars
    /\ UNCHANGED replayVars

\* lines 75-95: obter_classificacao_atual after its fetch
ObterAggregate ==
    /\ pc = "aggregate"
    /\ site = "obter"
    /\ IF ObterMissingKey(df) # ""
       THEN /\ Propagate(KeyError(ObterMissingKey(df)))
            /\ UNCHANGED <<df_out, files, log>>
       ELSE LET df_classificacao ==
                    Frame(df.src, columns_available(df) \cup {"Conferencia"}, ObterRows(df))
            IN  /\ files' = Write(ClassificacaoPath, df_classificacao)
                /\ log' = Append(log, <<"persist", ClassificacaoPath>>)
                /\ df_out' = Append(df_out, df_classificacao)
                /\ pc' = "done"
                /\ error' = error
    /\ UNCHANGED <<site, season_i, players, roster_df, player_ids, player_i, df, fetched>>
    /\ UNCHANGED retryVars
    /\ UNCHANGED replayVars

\* ----------------------------------------------------------- specifications
NoFirst == [files |-> <<>>, fetched |-> [e \in Endpoints |-> 0]]
ReplayOff ==
    /\ replay = "off"
    /\ memo = <<>>
    /\ first = NoFirst

InitRetryIdle ==
    /\ ReplayOff
    /\ retries = DefaultRetries
    /\ attempt = 0
    /\ rpc = "idle"
    /\ rlog = <<>>
    /\ result = <<>>

\* A run of main, from its first line.
Init ==
    /\ pc = "season"
    /\ site = "games"
    /\ season_i = 1
    /\ players = MainPlayers
    /\ roster_df = NoDf
    /\ player_ids = <<>>
    /\ player_i = 0
    /\ df = NoDf
    /\ df_out = <<>>
    /\ files = <<>>
    /\ log = <<>>
    /\ fetched = [e \in Endpoints |-> 0]
    /\ error = NoError
    /\ InitRetryIdle

Next ==
    \/ SeasonStart
    \/ FetcherCall
    \/ Invoke
    \/ Sleep
    \/ PrimaryTable
    \/ Persist
    \/ Pace
    \/ GetPlayerIds
    \/ PlayerLoop
    \/ ListarAggregate
    \/ ObterAggregate

Spec == Init /\ [][Next]_vars

\* One call of retry_request, for any retries >= 1, at a step whose operation
\* does not depend on a roster.
InitRetry ==
    /\ pc = "retry"
    /\ site \in {"games", "roster", "listar"}
    /\ season_i = 1
    /\ players = MainPlayers
    /\ roster_df = NoDf
    /\ player_ids = <<>>
    /\ player_i = 0
    /\ df = NoDf
    /\ df_out = <<>>
    /\ files = <<>>
    /\ log = <<>>
    /\ fetched = [e \in Endpoints |-> 0]
    /\ error = NoError
    /\ ReplayOff
    /\ retries \in 1..MaxRetries
    /\ attempt = 0
    /\ rpc = "try"
    /\ rlog = <<>>
    /\ result = <<>>

NextRetry ==
    \/ Invoke
    \/ Sleep

SpecRetry == InitRetry /\ [][NextRetry]_vars

\* One call of get_player_ids, for any roster and any requested names.
InitFilter ==
    /\ pc = "filter"
    /\ site = "roster"
    /\ season_i = 1
    /\ players \in FilterPlayers
    /\ roster_df \in {RosterTable(season, rows) : rows \in FilterRosters}
    /\ player_ids = <<>>
    /\ player_i = 0
    /\ df = NoDf
    /\ df_out = <<>>
    /\ files = <<>>
    /\ log = <<>>
    /\ fetched = [e \in Endpoints |-> 0]
    /\ error = NoError
    /\ InitRetryIdle

NextFilter == GetPlayerIds

SpecFilter == InitFilter /\ [][NextFilter]_vars

\* One aggregation, of either kind, of any fetched standings table.
InitAgg ==
    /\ pc = "aggregate"
    /\ site \in {"listar", "obter"}
    /\ season_i = Len(seasons) + 1
    /\ players = MainPlayers
    /\ roster_df = NoDf
    /\ player_ids = <<>>
    /\ player_i = 0
    /\ df \in StandingsTables(MaxRows)
    /\ df_out = <<>>
    /\ files = <<>>
    /\ log = <<>>
    /\ fetched = [e \in Endpoints |-> 0]
    /\ error = NoError
    /\ InitRetryIdle

NextAgg ==
    \/ ListarAggregate
    \/ ObterAggregate

SpecAgg == InitAgg /\ [][NextAgg]_vars

\* The player part of a season (lines 125-133), for any roster the season's
\* roster fetch may have returned: the team files are written, the roster is
\* in hand.
InitSeason ==
    /\ pc = "filter"
    /\ site = "roster"
    /\ season_i = 1
    /\ players = MainPlayers
    /\ roster_df \in {RosterTable(season, rows) : rows \in FilterRosters}
    /\ player_ids = <<>>
    /\ player_i = 0
    /\ df = NoDf
    /\ df_out = <<>>
    /\ files = (team_games_filepath(season) :> <<"TeamGameLog", team_id, season>>)
                   @@ (roster_filepath(season) :> <<"CommonTeamRoster", team_id, season>>)
    /\ log = << <<"fetch", <<"TeamGameLog", team_id, season>>>>,
                <<"persist", team_games_filepath(season)>>,
                <<"pace", TeamPace>>,
                <<"fetch", <<"CommonTeamRoster", team_id, season>>>>,
                <<"persist", roster_filepath(season)>>,
                <<"pace", TeamPace>> >>
    /\ fetched = [e \in Endpoints |-> IF e \in {"TeamGameLog", "CommonTeamRoster"} THEN 1 ELSE 0]
    /\ error = NoError
    /\ InitRetryIdle

NextSeason ==
    \/ GetPlayerIds
    \/ PlayerLoop
    \/ FetcherCall
    \/ Invoke
    \/ Sleep
    \/ PrimaryTable
    \/ Persist
    \/ Pace

SpecSeason == InitSeason /\ [][NextSeason]_vars

\* Two executions of the script, one after the other, over the same data
\* directory, the provider answering the second as it answered the first.
InitRerun ==
    /\ pc = "season"
    /\ site = "games"
    /\ season_i = 1
    /\ players = MainPlayers
    /\ roster_df = NoDf
    /\ player_ids = <<>>
    /\ player_i = 0
    /\ df = NoDf
    /\ df_out = <<>>
    /\ files = <<>>
    /\ log = <<>>
    /\ fetched = [e \in Endpoints |-> 0]
    /\ error = NoError
    /\ retries = DefaultRetries
    /\ attempt = 0
    /\ rpc = "idle"
    /\ rlog = <<>>
    /\ result = <<>>
    /\ replay = "record"
    /\ memo = <<>>
    /\ first = NoFirst

\* lines 141-142, a second time: the first execution over, the script is run
\* again; only the files are left of the first.
Rerun ==
    /\ pc = "done"
    /\ replay = "record"
    /\ replay' = "replay"
    /\ first' = [files |-> files, fetched |-> fetched]
    /\ pc' = "season"
    /\ site' = "games"
    /\ season_i' = 1
    /\ df' = NoDf
    /\ df_out' = <<>>
    /\ log' = <<>>
    /\ UNCHANGED <<players, roster_df, player_ids, player_i, files, fetched, error, memo>>
    /\ UNCHANGED retryVars

NextRerun ==
    \/ Next
    \/ Rerun

SpecRerun == InitRerun /\ [][NextRerun]_vars

\* ------------------------------------------------------------------- claims
Invocations(l) == SelectSeq(l, LAMBDA e : e[1] = "invoke")
Waits(l) == SelectSeq(l, LAMBDA e : e[1] = "sleep")
TransientAt(l, i) == l[i] = <<"invoke", Raises("transient")>>
ReturnAt(l, i) == l[i][1] = "invoke" /\ l[i][2].kind = "return"
OtherAt(l, i) == l[i][1] = "invoke" /\ l[i][2].kind = "raise" /\ ~TransientAt(l, i)

\* C1: when the operation fails transiently on its first k invocations
\* (k < retries) and returns on invocation k+1, retry_request has returned
\* exactly that value, the operation was invoked k+1 times, k waits happened,
\* and nothing (no invocation, no wait) follows the successful invocation; and
\* after k < retries transient failures and k waits the operation is invoked
\* again.
C1_ReturnsFirstSuccess ==
    LET inv == Invocations(rlog)
        k == Len(inv) - 1
    IN  /\ \A i \in DOMAIN rlog :
              ReturnAt(rlog, i) =>
                  /\ i = Len(rlog)
                  /\ \A j \in 1..k : TransientAt(inv, j)
                  /\ k < retries
                  /\ rpc = "returned"
                  /\ result = rlog[i][2].value
                  /\ Len(inv) = k + 1
                  /\ Len(Waits(rlog)) = k
                  /\ error = NoError
        /\ (pc = "retry" /\ rpc = "try") =>
              /\ Len(inv) < retries
              /\ Len(Waits(rlog)) = Len(inv)
              /\ \A j \in DOMAIN inv : TransientAt(inv, j)

\* C1 witness: a call that returned on its last allowed attempt, after
\* retries - 1 transient failures and as many waits.
C1_Witness ==
    /\ rpc = "returned"
    /\ retries > 1
    /\ Len(Waits(rlog)) = retries - 1
    /\ result = rlog[Len(rlog)][2].value
    /\ result[1].tables # <<>>

\* C2: when every one of the first `retries` invocations fails transiently,
\* the call does not return: it ends in the RetriesExhausted failure, and the
\* operation has been invoked exactly `retries` times; it is never invoked
\* more than `retries` times, and RetriesExhausted arises in no other way.
C2_ExhaustionRaises ==
    LET inv == Invocations(rlog)
        allTransient == \A j \in DOMAIN inv : TransientAt(inv, j)
    IN  /\ Len(inv) <= retries
        /\ (Len(inv) = retries /\ allTransient) =>
              /\ rpc \in {"sleep", "raised"}
              /\ result = <<>>
              /\ rpc = "raised" => (error = RetriesExhausted /\ pc = "failed")
        /\ error = RetriesExhausted =>
              /\ rpc = "raised"
              /\ Len(inv) = retries
              /\ allTransient
              /\ result = <<>>

\* C2 witness: a call with retries > 1 that ended in RetriesExhausted after
\* `retries` invocations.
C2_Witness ==
    /\ error = RetriesExhausted
    /\ retries > 1
    /\ Len(Invocations(rlog)) = retries

\* C3: an invocation that fails with a failure that is not transient is the
\* last event of the call, whichever attempt it is: no wait and no further
\* invocation follow it, and the call ends with that same failure, not with
\* RetriesExhausted and not with a value.
C3_OtherFailurePropagates ==
    \A i \in DOMAIN rlog :
        OtherAt(rlog, i) =>
            /\ i = Len(rlog)
            /\ rpc = "raised"
            /\ pc = "failed"
            /\ error = [type |-> rlog[i][2].exc, arg |-> ""]
            /\ error.type \in OtherFailures
            /\ error # RetriesExhausted
            /\ result = <<>>

\* C3 witness: a non-transient failure on a later attempt, after transient
\* ones, ended the call.
C3_Witness ==
    /\ rpc = "raised"
    /\ error.type \in OtherFailures
    /\ Len(rlog) > 2
    /\ OtherAt(rlog, Len(rlog))

IsPrefix(a, b) == Len(a) <= Len(b) /\ SubSeq(b, 1, Len(a)) = a
Count(l, e) == Len(SelectSeq(l, LAMBDA x : x = e))
Persists(l) == SelectSeq(l, LAMBDA x : x[1] = "persist")

\* The events of a season whose fetches all succeed, for the matched players
\* `ids` (the items of the PlayerIdMap, in order).
RECURSIVE PlayerSteps(_, _)
PlayerSteps(ids, s) ==
    IF ids = <<>> THEN <<>>
    ELSE << <<"fetch", <<"PlayerGameLog", ids[1][2], s>>>>,
            <<"persist", player_filepath(ids[1][1], s)>>,
            <<"pace", 3>> >> \o PlayerSteps(Tail(ids), s)
SeasonSteps(s, ids) ==
    << <<"fetch", <<"TeamGameLog", team_id, s>>>>,
       <<"persist", team_games_filepath(s)>>,
       <<"pace", 2>>,
       <<"fetch", <<"CommonTeamRoster", team_id, s>>>>,
       <<"persist", roster_filepath(s)>>,
       <<"pace", 2>> >> \o PlayerSteps(ids, s)
InSeason ==
    /\ site \in {"games", "roster", "player"}
    /\ pc \in {"call", "retry", "save", "pace", "filter", "player_loop", "failed"}
SeasonOver == pc = "player_loop" /\ player_i > Len(player_ids)

\* C4: the events of a season happen in the order fetch team game log,
\* persist games file, pace 2, fetch roster, persist roster file, pace 2, then
\* per matched player in turn fetch player game log, persist the player's
\* file, pace 3: at every point of a season the events so far are a prefix of
\* that sequence, every persisted file holds the record set of the fetch just
\* before it, and a season without failure ends with the whole sequence: n + 2
\* files, two paces of 2 s and n paces of 3 s for n matched players.
C4_SeasonEventOrder ==
    InSeason =>
        /\ IsPrefix(log, SeasonSteps(season, player_ids))
        /\ \A i \in DOMAIN log :
              log[i][1] = "persist" =>
                  /\ i > 1
                  /\ log[i - 1][1] = "fetch"
                  /\ log[i][2] \in DOMAIN files
                  /\ files[log[i][2]] = log[i - 1][2]
        /\ SeasonOver =>
              /\ log = SeasonSteps(season, player_ids)
              /\ Len(Persists(log)) = Len(player_ids) + 2
              /\ Count(log, <<"pace", 2>>) = 2
              /\ Count(log, <<"pace", 3>>) = Len(player_ids)

\* C4 witness: the second season ended with three matched players: five
\* files, two paces of 2 s, three of 3 s.
C4_Witness ==
    /\ SeasonOver
    /\ site = "player"
    /\ season_i = 2
    /\ Len(player_ids) = 3
    /\ Len(log) = 15
    /\ Count(log, <<"pace", 3>>) = 3

\* C5: once a fetcher has ended in RetriesExhausted the run is over: the
\* failure leaves main in its failed state at once, and from then on nothing
\* happens: no remote call, no file written, no later player or season, no
\* second call of the fetcher.
C5_FailFast ==
    [][/\ error' = RetriesExhausted => (pc' = "failed" /\ rpc' = "raised")
       /\ error = RetriesExhausted =>
             /\ pc' = "failed"
             /\ files' = files
             /\ fetched' = fetched
             /\ rlog' = rlog
             /\ log' = log
             /\ season_i' = season_i
             /\ player_i' = player_i]_vars

\* C5 witness: a player fetch of the first season exhausted its retries, with
\* a later player and a later season still to do.
C5_Witness ==
    /\ error = RetriesExhausted
    /\ pc = "failed"
    /\ site = "player"
    /\ season_i = 1
    /\ player_i < Len(player_ids)
    /\ Len(Invocations(rlog)) = DefaultRetries

\* The rows of a table by conference, as index sets, and the place of a row
\* among those of its conference.
EastIdx(d) == {i \in DOMAIN d.rows : d.rows[i].Conference = "East"}
WestIdx(d) == {i \in DOMAIN d.rows : d.rows[i].Conference = "West"}
RankIn(S, i) == Cardinality({j \in S : j <= i})

\* What an input row becomes in the listing, and in the classification of a
\* table with columns `cols`.
ListarRowOf(r, label) == [Nome |-> r.TeamName, ID |-> r.TeamID, Conferencia |-> label]
ObterRowOf(r, label, cols) ==
    [c \in ({"TeamName", "Conference", "WinPCT"} \cap cols) \cup {"Conferencia"} |->
        IF c = "Conferencia" THEN label ELSE r[c]]

\* `out` is the East rows of d, in input order and labelled Leste, then the
\* West rows, in input order and labelled Oeste, and nothing else.
Partitioned(d, out, RowOf(_, _)) ==
    LET E == EastIdx(d)
        W == WestIdx(d)
    IN  /\ Len(out) = Cardinality(E) + Cardinality(W)
        /\ Len(out) <= Len(d.rows)
        /\ \A i \in E : out[RankIn(E, i)] = RowOf(d.rows[i], "Leste")
        /\ \A i \in W : out[Cardinality(E) + RankIn(W, i)] = RowOf(d.rows[i], "Oeste")
ListarPartitioned(d, out) == Partitioned(d, out, ListarRowOf)
ObterPartitioned(d, out) == Partitioned(d, out, LAMBDA r, l : ObterRowOf(r, l, d.cols))

\* C6, as claimed: standings are fetched only after all seasons, and a run
\* that ends well has fetched them exactly once, both files are written, and
\* the listing and the classification are both computed from that one table.
C6_StandingsFetchedOnce ==
    /\ fetched["LeagueStandings"] > 0 => season_i > Len(seasons)
    /\ pc = "done" =>
          /\ fetched["LeagueStandings"] = 1
          /\ {TimesPath, ClassificacaoPath} \subseteq DOMAIN files
          /\ ListarPartitioned(df, files[TimesPath].rows)
          /\ ObterPartitioned(df, files[ClassificacaoPath].rows)

\* C6, amended: standings are fetched only after all seasons, once by each of
\* the two aggregations: the listing is computed from the table of the first
\* fetch and persisted, the classification from the table of the second fetch
\* and persisted, so a run that ends well has fetched standings exactly twice.
C6_StandingsFetchedPerAggregation ==
    /\ fetched["LeagueStandings"] > 0 =>
          (season_i > Len(seasons) /\ site \in {"listar", "obter"})
    /\ fetched["LeagueStandings"] <= 2
    /\ site = "listar" => fetched["LeagueStandings"] <= 1
    /\ (site = "obter" /\ pc = "call") =>
          /\ fetched["LeagueStandings"] = 1
          /\ Len(df_out) = 1
          /\ TimesPath \in DOMAIN files
          /\ files[TimesPath] = df_out[1]
          /\ ListarPartitioned(df, files[TimesPath].rows)
    /\ pc = "done" =>
          /\ fetched["LeagueStandings"] = 2
          /\ Len(df_out) = 2
          /\ {TimesPath, ClassificacaoPath} \subseteq DOMAIN files
          /\ files[TimesPath] = df_out[1]
          /\ files[ClassificacaoPath] = df_out[2]
          /\ ObterPartitioned(df, files[ClassificacaoPath].rows)

\* C6 witness: a run ended well after two standings fetches that returned
\* different tables: the listing has a row, the classification has none.
C6_Witness ==
    /\ pc = "done"
    /\ fetched["LeagueStandings"] = 2
    /\ files[TimesPath].rows # <<>>
    /\ files[ClassificacaoPath].rows = <<>>
    /\ df.rows # <<>>

\* C7, as claimed: for every standings table that has a Conference column,
\* each aggregation yields an output, and it holds exactly the East rows in
\* input order, labelled Leste, then the West rows in input order, labelled
\* Oeste, no other row, and no more rows than the input.
C7_Partition ==
    (pc # "aggregate" /\ "Conference" \in df.cols) =>
        /\ error = NoError
        /\ Len(df_out) = 1
        /\ IF pc = "call"
           THEN ListarPartitioned(df, df_out[1].rows)
           ELSE ObterPartitioned(df, df_out[1].rows)

\* The part of C7 the code keeps: whenever an aggregation yields an output,
\* the output is that partition of its input.
PartitionWhenOutput ==
    (pc # "aggregate" /\ error = NoError) =>
        /\ "Conference" \in df.cols
        /\ Len(df_out) = 1
        /\ IF pc = "call"
           THEN ListarPartitioned(df, df_out[1].rows)
           ELSE ObterPartitioned(df, df_out[1].rows)

\* C8: an aggregation of a table without a Conference column ends in the
\* SchemaError failure (KeyError on 'Conference') and produces nothing: no file
\* is written or changed and no record set is returned.
C8_MissingConference ==
    [][(pc = "aggregate" /\ "Conference" \notin df.cols) =>
          /\ error' = SchemaError
          /\ pc' = "failed"
          /\ files' = files
          /\ df_out' = df_out]_vars

\* C8 witness: the classification failed with SchemaError after the listing
\* had been written: the listing is there, the classification file is not.
C8_Witness ==
    /\ pc = "failed"
    /\ error = SchemaError
    /\ site = "obter"
    /\ "Conference" \notin df.cols
    /\ df.rows # <<>>
    /\ TimesPath \in DOMAIN files
    /\ ClassificacaoPath \notin DOMAIN files
    /\ Len(df_out) = 1

Keys(d) == {d[i][1] : i \in DOMAIN d}
Matched(roster, ps) == {n \in Range(ps) : \E i \in DOMAIN roster.rows : roster.rows[i].PLAYER = n}

\* C9: the keys of the PlayerIdMap are exactly the requested names equal to
\* the PLAYER of some roster row, each once; each value is the PLAYER_ID of a
\* roster row with that PLAYER; the map has no more entries than names were
\* requested; and no failure is raised.
C9_RosterFilter ==
    pc = "player_loop" =>
        /\ Keys(player_ids) = Matched(roster_df, players)
        /\ \A i, j \in DOMAIN player_ids : player_ids[i][1] = player_ids[j][1] => i = j
        /\ \A i \in DOMAIN player_ids :
              \E k \in DOMAIN roster_df.rows :
                  /\ roster_df.rows[k].PLAYER = player_ids[i][1]
                  /\ roster_df.rows[k].PLAYER_ID = player_ids[i][2]
        /\ Len(player_ids) <= Len(players)
        /\ error = NoError

\* C9 witness: two names requested, one of them on a three-row roster that
\* also lists an unrequested name: one entry.
C9_Witness ==
    /\ pc = "player_loop"
    /\ Len(players) = 2
    /\ players[1] # players[2]
    /\ Len(roster_df.rows) = 3
    /\ Len(player_ids) = 1
    /\ \E k \in DOMAIN roster_df.rows : roster_df.rows[k].PLAYER \notin Range(players)

NoMatch == Matched(roster_df, players) = {}

\* C10: when no requested name is on the season's roster, get_player_ids
\* yields the empty map and raises nothing; the player loop then ends at once,
\* without a player fetch or a player file, and main goes on to the next
\* season, or to the standings phase after the last one.
C10_EmptyMatchContinues ==
    [][/\ (pc = "filter" /\ NoMatch) =>
             /\ player_ids' = <<>>
             /\ error' = NoError
             /\ pc' = "player_loop"
       /\ (pc = "player_loop" /\ roster_df # NoDf /\ NoMatch) =>
             /\ pc' = "season"
             /\ season_i' = season_i + 1
             /\ files' = files
             /\ fetched' = fetched
             /\ error' = NoError
       /\ pc = "season" =>
             /\ pc' = "call"
             /\ site' = IF season_i <= Len(seasons) THEN "games" ELSE "listar"
             /\ season_i' = season_i
             /\ error' = NoError]_vars

\* C10 witness: the second season's roster has rows but no requested name,
\* after a first season that had none either: no player was fetched, and the
\* run is still going.
C10_Witness ==
    /\ pc = "player_loop"
    /\ season_i = 2
    /\ roster_df.rows # <<>>
    /\ NoMatch
    /\ player_ids = <<>>
    /\ fetched["PlayerGameLog"] = 0
    /\ error = NoError

\* The output columns the two aggregations are asked for, and the names they
\* carry in the output.
DesiredColumns(s) ==
    IF s = "listar" THEN {"TeamName", "TeamID"} ELSE {"TeamName", "Conference", "WinPCT"}
OutputName(s, c) == IF s = "listar" THEN RenamedColumn(c) ELSE c

\* C11, as claimed: for both aggregations, a table that has a Conference
\* column but lacks desired output columns is still aggregated: no failure,
\* one output, and the output carries exactly the desired columns the table
\* has, and the label.
C11_GracefulDegradation ==
    (pc # "aggregate" /\ "Conference" \in df.cols) =>
        LET s == IF pc = "call" \/ (pc = "failed" /\ site = "listar") THEN "listar" ELSE "obter"
        IN  /\ error = NoError
            /\ Len(df_out) = 1
            /\ df_out[1].cols =
                  {OutputName(s, c) : c \in DesiredColumns(s) \cap df.cols} \cup {"Conferencia"}

\* The file the step in hand writes when it succeeds.
StepPath ==
    CASE site = "listar" -> TimesPath
      [] site = "obter" -> ClassificacaoPath
      [] OTHER -> SavePath

\* C12: when the remote call of a fetcher (team game log, roster, player
\* game log, standings) has returned a response without a primary table, the
\* fetcher ends in the MalformedResponse failure at once: the remote operation
\* is not invoked again, the file of that step is not written, and the run is
\* over: nothing happens after the failure.
C12_MalformedResponse ==
    [][/\ (pc = "retry" /\ rpc = "returned" /\ result[1].tables = <<>>) =>
             /\ error' = MalformedResponse
             /\ pc' = "failed"
             /\ fetched' = fetched
             /\ files' = files
             /\ StepPath \notin DOMAIN files'
             /\ log' = log
       /\ error = MalformedResponse =>
             /\ pc' = "failed"
             /\ fetched' = fetched
             /\ files' = files]_vars

\* C12 witness: the fetch of the second matched player of the second season
\* returned a response without tables: the run has failed, that player's file
\* is not there, the first player's is.
C12_Witness ==
    /\ pc = "failed"
    /\ error = MalformedResponse
    /\ site = "player"
    /\ season_i = 2
    /\ player_i = 2
    /\ player_filepath(player, season) \notin DOMAIN files
    /\ player_filepath(player_ids[1][1], season) \in DOMAIN files

\* C13, as claimed: at least one pacing sleep separates any two successive
\* successful fetch steps of the run, those of the standings phase included:
\* between two fetches of which the later one was persisted, the events hold a
\* pace; and a phase hands over to the next one just after a pace.
C13_PacingBetweenFetches ==
    /\ \A i, j \in DOMAIN log :
          (/\ i < j
           /\ log[i][1] = "fetch"
           /\ log[j][1] = "fetch"
           /\ j < Len(log)
           /\ log[j + 1][1] = "persist") =>
              \E k \in (i + 1)..(j - 1) : log[k][1] = "pace"
    /\ (pc = "season" /\ log # <<>>) => log[Len(log)][1] = "pace"

\* C14, as claimed: the delay wait of retry_request happens only between
\* attempts: every wait comes just after a transiently failed invocation and
\* just before a further invocation, and a call that exhausts its attempts has
\* waited retries - 1 times, not after its last failed attempt.
C14_DelayOnlyBetweenAttempts ==
    /\ \A i \in DOMAIN rlog :
          rlog[i][1] = "sleep" =>
              /\ i > 1
              /\ TransientAt(rlog, i - 1)
              /\ IF i < Len(rlog)
                 THEN rlog[i + 1][1] = "invoke"
                 ELSE pc = "retry" /\ rpc = "try"
    /\ error = RetriesExhausted =>
          /\ Len(Waits(rlog)) = retries - 1
          /\ rlog[Len(rlog)][1] = "invoke"

\* The files written so far under the directory of the k-th configured season.
SeasonPaths(k) == {p \in DOMAIN files : Len(p) = 4 /\ p[2] = safe_season(seasons[k])}
Min(a, b) == IF a <= b THEN a ELSE b

\* C15: seasons are processed strictly in the configured order.  While the
\* k-th season is in hand every earlier season has its team files, no later
\* season has any file or fetch, and every fetch and write so far in the
\* season is of that season; the roster in hand is that season's roster and
\* the PlayerIdMap in use has exactly the requested names of that roster; and
\* standings are fetched only when every season is over.
C15_SeasonSequencing ==
    /\ season_i \in 1..(Len(seasons) + 1)
    /\ \A k \in DOMAIN seasons :
          /\ k > season_i => SeasonPaths(k) = {}
          /\ k < season_i =>
                {team_games_filepath(seasons[k]), roster_filepath(seasons[k])}
                    \subseteq DOMAIN files
    /\ \A e \in {"TeamGameLog", "CommonTeamRoster"} :
          /\ fetched[e] <= Min(season_i, Len(seasons))
          /\ fetched[e] >= Min(season_i, Len(seasons) + 1) - 1
    /\ InSeason =>
          \A i \in DOMAIN log :
              /\ log[i][1] = "fetch" => log[i][2][3] = seasons[season_i]
              /\ log[i][1] = "persist" =>
                    (Len(log[i][2]) = 4 /\ log[i][2][2] = safe_season(seasons[season_i]))
    /\ roster_df # NoDf =>
          /\ season_i \in DOMAIN seasons
          /\ roster_df.src = <<"CommonTeamRoster", team_id, seasons[season_i]>>
    /\ player_ids # <<>> =>
          /\ roster_df # NoDf
          /\ Keys(player_ids) = Matched(roster_df, players)
    /\ fetched["LeagueStandings"] > 0 => season_i = Len(seasons) + 1

\* C15 witness: the second season's first fetch is about to be made; the first
\* season, with three matched players, is whole: five files, and nothing of
\* the second season or of the standings yet.
C15_Witness ==
    /\ pc = "call"
    /\ site = "games"
    /\ season_i = 2
    /\ Cardinality(SeasonPaths(1)) = 5
    /\ SeasonPaths(2) = {}
    /\ fetched["PlayerGameLog"] = 3
    /\ fetched["LeagueStandings"] = 0

Terminal == pc \in {"done", "failed"}

\* An upper bound of the number of steps main still has to make: StepCost for
\* a whole fetch step (the call, `retries` invocations and as many waits, the
\* primary table, the write, the pace), LoopCost(n) for n turns of the player
\* loop and its exit, SeasonCost for a whole season.
StepCost == 2 * DefaultRetries + 4
LoopCost(n) == n * (StepCost + 1) + 1
SeasonCost == 1 + 2 * StepCost + 1 + LoopCost(Len(players))
StandingsCost == 1 + 2 * StepCost
After(k) == (Len(seasons) - k) * SeasonCost + StandingsCost
StepRank ==
    CASE pc = "call" -> StepCost
      [] pc = "retry" /\ rpc = "try" -> 2 * (retries - attempt) + 3
      [] pc = "retry" /\ rpc = "sleep" -> 2 * (retries - attempt) + 2
      [] pc = "retry" /\ rpc = "returned" -> 3
      [] pc \in {"save", "aggregate"} -> 2
      [] pc = "pace" -> 1
      [] OTHER -> 0
RestRank ==
    CASE pc = "player_loop" -> LoopCost(Len(player_ids) + 1 - player_i) + After(season_i)
      [] pc = "filter" -> 1 + LoopCost(Len(players)) + After(season_i)
      [] site = "games" -> StepCost + 1 + LoopCost(Len(players)) + After(season_i)
      [] site = "roster" -> 1 + LoopCost(Len(players)) + After(season_i)
      [] site = "player" -> LoopCost(Len(player_ids) - player_i) + After(season_i)
      [] site = "listar" -> StepCost
      [] site = "obter" -> 0
Rank ==
    CASE Terminal -> 0
      [] pc = "season" -> After(season_i - 1)
      [] OTHER -> StepRank + RestRank

\* What holds at every point of a run, for C16.
Bounded ==
    /\ Rank >= 0
    /\ ~Terminal => ENABLED Next
    /\ Len(Invocations(rlog)) <= retries
    /\ retries = DefaultRetries
    /\ pc = "done" <=>
          (error = NoError /\ {TimesPath, ClassificacaoPath} \subseteq DOMAIN files)
    /\ pc = "failed" <=> error # NoError

\* C16: every run of main ends.  A run that is not over always has a next
\* step, and every step lowers Rank, a natural number, so a run makes at most
\* Rank-many steps, whatever the provider answers; it is over when completed,
\* with both run-level files written, or failed, on its first failure.  No fetch
\* step invokes the remote operation more than `retries` times (hence no more
\* than retries times the number of fetch steps in all).
C16_Termination == []Bounded /\ [][Rank' < Rank]_vars

\* C16 witness: the longest run is over: two seasons of three matched players
\* each and the two standings files.
C16_Witness ==
    /\ pc = "done"
    /\ fetched["PlayerGameLog"] = 2 * Len(players)
    /\ {TimesPath, ClassificacaoPath} \subseteq DOMAIN files
    /\ Rank = 0

\* C17: when the script is run a second time and the provider answers every
\* call as it did in the first run, the second run never leaves a file other
\* than the first run left it: at every point no file is added, removed or
\* given another content (each write overwrites a file with what it held); and
\* the second run makes every fetch again: once it is over, every endpoint has
\* been fetched twice as often as by the first run alone.
C17_RerunIdempotent ==
    replay = "replay" =>
        /\ files = first.files
        /\ \A e \in Endpoints :
              /\ fetched[e] >= first.fetched[e]
              /\ fetched[e] <= 2 * first.fetched[e]
              /\ pc = "done" => fetched[e] = 2 * first.fetched[e]

\* C17 witness: the second run is over, after two seasons with a different
\* number of matched players (three, then one) and the two standings files:
\* ten files, every one written twice.
C17_Witness ==
    /\ replay = "replay"
    /\ pc = "done"
    /\ Cardinality(SeasonPaths(1)) = 5
    /\ Cardinality(SeasonPaths(2)) = 3
    /\ Cardinality(DOMAIN files) = 10
    /\ fetched["PlayerGameLog"] = 8
    /\ fetched["LeagueStandings"] = 4

\* The roster rows where a requested name appears for the first time, and the
\* identifier on the last row that carries a name.
FirstRows(roster, ps) ==
    {i \in DOMAIN roster.rows :
        /\ roster.rows[i].PLAYER \in Range(ps)
        /\ \A j \in 1..(i - 1) : roster.rows[j].PLAYER # roster.rows[i].PLAYER}
LastIdOf(roster, n) ==
    LET last == CHOOSE j \in DOMAIN roster.rows :
                    /\ roster.rows[j].PLAYER = n
                    /\ \A k \in DOMAIN roster.rows : roster.rows[k].PLAYER = n => k <= j
    IN  roster.rows[last].PLAYER_ID
PlayerFetches(l) == SelectSeq(l, LAMBDA e : e[1] = "fetch" /\ e[2][1] = "PlayerGameLog")
PlayerPersists(l) == SelectSeq(l, LAMBDA e : e[1] = "persist" /\ e[2][3] = PlayersDirName)

\* C18: within a season the player game logs are fetched in the order in
\* which the matched names first appear among the roster rows, whatever the
\* order of the requested list: the k-th player fetch, and the k-th player
\* file, are those of the k-th such name, the identifier asked for is the one
\* on the last roster row with that name, and a season that ends has fetched
\* each matched name once, however many rows carry it.
C18_PlayerOrder ==
    (roster_df # NoDf /\ (site = "player" \/ pc = "player_loop")) =>
        LET F == FirstRows(roster_df, players)
            pf == PlayerFetches(log)
            pp == PlayerPersists(log)
        IN  /\ Len(pf) <= Cardinality(F)
            /\ Len(pp) <= Len(pf)
            /\ \A i \in F :
                  LET k == RankIn(F, i)
                      name == roster_df.rows[i].PLAYER
                  IN  /\ k <= Len(pf) =>
                            pf[k] = <<"fetch", <<"PlayerGameLog", LastIdOf(roster_df, name),
                                                 seasons[season_i]>>>>
                      /\ k <= Len(pp) =>
                            pp[k] = <<"persist", player_filepath(name, seasons[season_i])>>
            /\ SeasonOver => (Len(pf) = Cardinality(F) /\ Len(pp) = Cardinality(F))

\* C18 witness: the roster lists Desmond Bane, Ja Morant, Desmond Bane, with
\* two identifiers for Desmond Bane; the season ended with two player fetches,
\* Desmond Bane's first (though Ja Morant is requested first), with the
\* identifier of the third row.
C18_Witness ==
    /\ SeasonOver
    /\ Len(roster_df.rows) = 3
    /\ roster_df.rows[1].PLAYER = DesmondBane
    /\ roster_df.rows[2].PLAYER = JaMorant
    /\ roster_df.rows[3].PLAYER = DesmondBane
    /\ roster_df.rows[1].PLAYER_ID # roster_df.rows[3].PLAYER_ID
    /\ players[1] = JaMorant
    /\ PlayerFetches(log) =
          << <<"fetch", <<"PlayerGameLog", roster_df.rows[3].PLAYER_ID, season>>>>,
             <<"fetch", <<"PlayerGameLog", roster_df.rows[2].PLAYER_ID, season>>>> >>

\* The output paths the configured seasons and requested players can give.
ConfiguredPaths ==
    {team_games_filepath(s) : s \in Range(seasons)}
        \cup {roster_filepath(s) : s \in Range(seasons)}
        \cup {player_filepath(n, s) : n \in Range(players), s \in Range(seasons)}
        \cup {TimesPath, ClassificacaoPath}
PlayerPaths(k) == {p \in SeasonPaths(k) : p[3] = PlayersDirName}

\* C19: every successful fetch-and-persist step of a run writes a file of its
\* own.  After sanitization ('/' to '-' in the season, ' ' to '_' in the
\* name) distinct seasons and distinct (season, requested player) pairs have
\* distinct paths, none of them a run-level path; a step about to write never
\* finds its path written by an earlier step of the run; there are as many
\* files as steps have written; and a season that ends has as many player
\* files as its PlayerIdMap has entries.
C19_DistinctPaths ==
    /\ pc = "season" =>
          /\ Cardinality(ConfiguredPaths) =
                2 * Len(seasons) + Len(seasons) * Cardinality(Range(players)) + 2
          /\ \A s \in Range(seasons), n \in Range(players) :
                /\ "/" \notin Range(safe_season(s))
                /\ " " \notin Range(safe_player(n))
    /\ pc = "save" => (SavePath \notin DOMAIN files /\ SavePath \in ConfiguredPaths)
    /\ pc = "aggregate" => StepPath \notin DOMAIN files
    /\ InSeason =>
          /\ Cardinality(SeasonPaths(season_i)) = Len(Persists(log))
          /\ Cardinality(PlayerPaths(season_i)) = Len(PlayerPersists(log))
    /\ SeasonOver => Cardinality(PlayerPaths(season_i)) = Len(player_ids)
    /\ \A k \in 1..(season_i - 1) :
          k \in DOMAIN seasons => Cardinality(SeasonPaths(k)) >= 2

\* C19 witness: a run ended after two seasons of three matched players each:
\* twelve steps have written, twelve files are there.
C19_Witness ==
    /\ pc = "done"
    /\ fetched["PlayerGameLog"] = 6
    /\ Cardinality(PlayerPaths(1)) = 3
    /\ Cardinality(PlayerPaths(2)) = 3
    /\ Cardinality(DOMAIN files) = 12

====
